---- MODULE Spec2Model ----
(***************************************************************************)
(* Model of the /api/weather endpoint of iws-group10.  The repository      *)
(* holds three versions of the same Express server:                       *)
(*   src/server.js, src/unnamed/part_000 and src/unnamed/part_001.         *)
(* Each version is one handler action below; the formula functions of     *)
(* each version are operators that take the version as first argument     *)
(* where the versions differ.                                              *)
(*                                                                         *)
(* Numbers.  A JavaScript number is a record [k, v]: k = "num" carries    *)
(* the value v in hundredths (35 is 3500, 4.8 is 480), k = "NaN",          *)
(* k = "-Infinity" and k = "null" are the non-finite values and the JSON   *)
(* null.  Every comparison with NaN is false, every arithmetic result     *)
(* with a NaN operand is NaN, as in IEEE 754.                              *)
(* Strings that the handler inspects are sequences of one-character       *)
(* strings, so that parseFloat and the || default act on their content.   *)
(***************************************************************************)
EXTENDS Integers, Sequences, FiniteSets, TLC

VARIABLES req, res, servedBy, clock

vars == <<req, res, servedBy, clock>>

\* ------------------------------------------------------------------------
\* JavaScript values
\* ------------------------------------------------------------------------
Num(v) == [k |-> "num", v |-> v]

NaN == [k |-> "NaN", v |-> 0]

NegInfinity == [k |-> "-Infinity", v |-> 0]

Null == [k |-> "null", v |-> 0]

\* isNaN(x) for a number x
isNaN(x) == x.k = "NaN"

\* x < c, x <= c, x > c, x >= c for a number x and a finite literal c
\* (c in hundredths); false whenever x is NaN
Lt(x, c) == (x.k = "num" /\ x.v < c) \/ x.k = "-Infinity"

Le(x, c) == (x.k = "num" /\ x.v <= c) \/ x.k = "-Infinity"

Gt(x, c) == x.k = "num" /\ x.v > c

Ge(x, c) == x.k = "num" /\ x.v >= c

\* A property of a request object: absent (undefined) or a string
Missing == [present |-> FALSE, text |-> <<>>]

Str(s) == [present |-> TRUE, text |-> s]

DigitVal == [c \in {"0", "1", "2", "3", "4", "5", "6", "7", "8", "9"} |->
               CASE c = "0" -> 0 [] c = "1" -> 1 [] c = "2" -> 2 [] c = "3" -> 3
                 [] c = "4" -> 4 [] c = "5" -> 5 [] c = "6" -> 6 [] c = "7" -> 7
                 [] c = "8" -> 8 [] c = "9" -> 9]

IsDigit(c) == c \in DOMAIN DigitVal

\* number of consecutive decimal digits of s from position i on
RECURSIVE DigitRun(_, _)
DigitRun(s, i) ==
  IF i <= Len(s) /\ IsDigit(s[i]) THEN 1 + DigitRun(s, i + 1) ELSE 0

\* value of the n digits of s that start at position i
RECURSIVE DigitsValue(_, _, _)
DigitsValue(s, i, n) ==
  IF n = 0 THEN 0 ELSE DigitsValue(s, i, n - 1) * 10 + DigitVal[s[i + n - 1]]

\* parseFloat: the longest prefix [+-]digits[.digits] of the string, NaN when
\* there is none (undefined, "", "abc"); the value is kept to two decimals
parseFloat(raw) ==
  LET s     == raw.text
      signed == Len(s) >= 1 /\ s[1] \in {"-", "+"}
      neg   == Len(s) >= 1 /\ s[1] = "-"
      start == IF signed THEN 2 ELSE 1
      ni    == DigitRun(s, start)
      dot   == start + ni <= Len(s) /\ s[start + ni] = "."
      nf    == IF dot THEN DigitRun(s, start + ni + 1) ELSE 0
      ip    == DigitsValue(s, start, ni)
      f1    == IF nf >= 1 THEN DigitVal[s[start + ni + 1]] ELSE 0
      f2    == IF nf >= 2 THEN DigitVal[s[start + ni + 2]] ELSE 0
      mag   == ip * 100 + f1 * 10 + f2
  IN  IF ~raw.present \/ (ni = 0 /\ nf = 0)
        THEN NaN
        ELSE Num(IF neg THEN 0 - mag ELSE mag)

\* ------------------------------------------------------------------------
\* Fixed-point arithmetic.  Inside a formula the intermediate values are
\* integers in millionths; toFixed(2) brings the result back to hundredths.
\* ------------------------------------------------------------------------
Abs(n) == IF n < 0 THEN 0 - n ELSE n

\* (a * b) \div d for a, b >= 0 and d > 0, digit by digit over a so that no
\* intermediate product leaves the machine integers
RECURSIVE MulDivNat(_, _, _)
MulDivNat(a, b, d) ==
  IF a = 0 \/ b = 0
    THEN 0
    ELSE LET q == b \div d
             r == b % d
         IN  a * q + ((a % 10) * r) \div d + MulDivNat(a \div 10, r * 10, d)

\* a * b / d for signed a and b, d > 0
MulDiv(a, b, d) ==
  IF (a < 0) = (b < 0)
    THEN MulDivNat(Abs(a), Abs(b), d)
    ELSE 0 - MulDivNat(Abs(a), Abs(b), d)

\* +x.toFixed(2): a value in millionths rounded to hundredths, half away
\* from zero
toFixed2(u) ==
  IF u < 0 THEN Num(0 - ((5000 - u) \div 10000)) ELSE Num((u + 5000) \div 10000)

\* Math.pow(windSpeed, 0.16) in millionths, for the wind speeds (hundredths)
\* that reach the wind-chill formula
MathPow016(w) ==
  CASE w = 480  -> 1285283
    [] w = 500  -> 1293705
    [] w = 1000 -> 1445440
    [] w = 2000 -> 1614971
    [] w = 3000 -> 1723215

\* Math.log(humidity / 100) in millionths, for the positive humidities
\* (hundredths) of the model
MathLogPct(h) ==
  CASE h = 2000 -> 0 - 1609438
    [] h = 4500 -> 0 - 798508
    [] h = 6000 -> 0 - 510826
    [] h = 7800 -> 0 - 248461
    [] h = 9000 -> 0 - 105361

\* ------------------------------------------------------------------------
\* Weather calculations
\* ------------------------------------------------------------------------
\* The inputs of the model at which temp - (0.55 - 0.0055 * humidity) *
\* (temp - 14.5) is a decimal tie (x.xx5) and the double that the expression
\* evaluates to lies below the tie, so that toFixed(2) rounds it down
DoubleBelowTie(t, h) == h = 0 /\ t \in {1000, 1500, 3100, 3600}

thomsDiscomfortIndex(temp, humidity) ==
  IF temp.k # "num" \/ humidity.k # "num"
    THEN NaN
    ELSE LET t == temp.v
             h == humidity.v
             \* (0.55 - 0.0055 * humidity) * (temp - 14.5), in millionths
             prod == MulDiv(11 * (10000 - h), t - 1450, 20)
             di   == t * 10000 - prod
         IN  toFixed2(IF DoubleBelowTie(t, h) THEN di - 1 ELSE di)

\* the temperature below which the heat index is the temperature
HeatIndexMinTemp(f) == IF f = "part_000" THEN 2670 ELSE 2700

calculateHeatIndex(f, T, RH) ==
  IF Lt(T, HeatIndexMinTemp(f)) \/ Lt(RH, 4000)
    THEN T
    ELSE IF T.k # "num" \/ RH.k # "num"
      THEN NaN
      ELSE LET t    == T.v
               h    == RH.v
               TT   == t * t                        \* T*T,       1e-4
               HH   == h * h                        \* RH*RH,     1e-4
               TH   == t * h                        \* T*RH,      1e-4
               TTH  == MulDiv(TT, h, 100)           \* T*T*RH,    1e-4
               THH  == MulDiv(HH, t, 1000)          \* T*RH*RH,   1e-3
               TTHH == MulDiv(TT, HH, 10000000)     \* T*T*RH*RH, 1e-1
               HI   == 0 - 8784695
                       + MulDiv(161139411, t, 10000)
                       + MulDiv(233854900, h, 10000)
                       - MulDiv(14611605, TH, 1000000)
                       - MulDiv(1230809, TT, 1000000)
                       - MulDiv(1642482, HH, 1000000)
                       + MulDiv(221173, TTH, 1000000)
                       + MulDiv(72546, THH, 100000)
                       - MulDiv(358, TTHH, 1000)
           IN  toFixed2(HI)

\* part_000 adds the guard temp > 10 to the low-wind fallback
WindChillFallsBack(f, temp, windSpeed) ==
  IF f = "part_000"
    THEN Gt(temp, 1000) \/ Lt(windSpeed, 480)
    ELSE Lt(windSpeed, 480)

calculateWindChill(f, temp, windSpeed) ==
  IF WindChillFallsBack(f, temp, windSpeed)
    THEN temp
    ELSE IF temp.k # "num" \/ windSpeed.k # "num"
      THEN NaN
      ELSE LET t == temp.v
               p == MathPow016(windSpeed.v)
           IN  toFixed2(13120000 + 6215 * t - MulDiv(1137, p, 100)
                        + MulDiv(3965 * t, p, 1000000))

\* Math.log(humidity / 100): -Infinity at 0, NaN below 0
MathLog(humidity) ==
  IF humidity.k # "num" \/ humidity.v < 0
    THEN NaN
    ELSE IF humidity.v = 0 THEN NegInfinity ELSE Num(MathLogPct(humidity.v))

\* the Magnus formula without the guard of part_000
MagnusDewPoint(temp, humidity) ==
  LET lg == MathLog(humidity)
  IN  IF temp.k # "num" \/ lg.k = "NaN"
        THEN NaN
        ELSE IF lg.k = "-Infinity"
          \* alpha = -Infinity, (b * alpha) / (a - alpha) = -Infinity / Infinity
          THEN NaN
          ELSE LET t     == temp.v
                   alpha == MulDiv(10000, 1727 * t, 23770 + t) + lg.v
               IN  toFixed2(MulDiv(237700000, alpha, 17270000 - alpha))

calculateDewPoint(f, temp, humidity) ==
  IF f = "part_000" /\ Le(humidity, 0)
    THEN NegInfinity
    ELSE MagnusDewPoint(temp, humidity)

\* the wind speed below which a humid, mild day is rated "High"
RainCalmWind(f) == IF f = "part_000" THEN 1500 ELSE 600

getRainPrediction(f, temp, humidity, windSpeed) ==
  IF Gt(humidity, 8500) /\ Lt(temp, 3000) /\ Lt(windSpeed, RainCalmWind(f))
    THEN "High"
    ELSE IF Gt(humidity, 7500) /\ Lt(temp, 3200) THEN "Medium" ELSE "Low"

getWindWarning(f, windSpeed) ==
  CASE f = "server.js" ->
         IF Le(windSpeed, 0) THEN "No wind give"
         ELSE IF Gt(windSpeed, 2500) THEN "Strong Winds"
         ELSE IF Gt(windSpeed, 1500) THEN "Breezy"
         ELSE "None"
    [] f = "part_000" ->
         IF Gt(windSpeed, 2500) THEN "High Wind Warning"
         ELSE IF Gt(windSpeed, 1500) THEN "Wind Advisory"
         ELSE "Normal Conditions"
    [] f = "part_001" ->
         IF Gt(windSpeed, 2500) THEN "Strong Winds"
         ELSE IF Gt(windSpeed, 1500) THEN "Breezy"
         ELSE "None"

getComfortLevel(f, discomfortIndex) ==
  IF Lt(discomfortIndex, 2100) THEN "Comfortable"
  ELSE IF Lt(discomfortIndex, 2400) THEN "Slightly Warm"
  ELSE IF Lt(discomfortIndex, 2700) THEN "Uncomfortable"
  ELSE IF Lt(discomfortIndex, 2900) THEN "Very Uncomfortable"
  ELSE IF f = "part_000" THEN "Dangerous Conditions"
  ELSE "Extremely Uncomfortable"

getClothingSuggestion(f, comfortLevel) ==
  IF f = "part_000"
    THEN CASE comfortLevel = "Comfortable" -> "Light layers recommended"
           [] comfortLevel = "Slightly Warm" -> "Breathable fabrics suggested"
           [] comfortLevel = "Uncomfortable" ->
                "Light cotton clothing, avoid synthetics"
           [] comfortLevel = "Very Uncomfortable" ->
                "Loose cotton clothing, stay hydrated"
           [] comfortLevel = "Dangerous Conditions" ->
                "Avoid outdoor exposure, seek AC"
           [] OTHER -> "Dress according to conditions"
    ELSE CASE comfortLevel = "Comfortable" -> "Wear anything light."
           [] comfortLevel = "Slightly Warm" -> "Light clothes are best."
           [] comfortLevel = "Uncomfortable" -> "Wear cotton, avoid sun."
           [] comfortLevel = "Very Uncomfortable" ->
                "Stay hydrated, loose cotton clothing."
           [] comfortLevel = "Extremely Uncomfortable" ->
                "Avoid outdoor activity, stay in shade."
           [] OTHER -> "Dress as needed."

\* the second condition of calculateFeelsLike: temp <= 10 in part_000,
\* temp < 20 in server.js and part_001
FeelsLikeIsCold(f, temp) ==
  IF f = "part_000" THEN Le(temp, 1000) ELSE Lt(temp, 2000)

\* the branch calculateFeelsLike takes
FeelsLikeBranch(f, temp) ==
  IF Ge(temp, 2700) THEN "heatIndex"
  ELSE IF FeelsLikeIsCold(f, temp) THEN "windChill"
  ELSE "temp"

calculateFeelsLike(f, temp, humidity, windSpeed) ==
  CASE FeelsLikeBranch(f, temp) = "heatIndex" ->
         calculateHeatIndex(f, temp, humidity)
    [] FeelsLikeBranch(f, temp) = "windChill" ->
         calculateWindChill(f, temp, windSpeed)
    [] OTHER -> temp

getUvRisk(f, temp, humidity) ==
  IF f = "part_000"
    THEN IF Gt(temp, 3500) /\ Lt(humidity, 3000) THEN "Extreme"
         ELSE IF Gt(temp, 3000) /\ Lt(humidity, 5000) THEN "Very High"
         ELSE IF Gt(temp, 2500) THEN "Moderate"
         ELSE "Low"
    ELSE IF Gt(temp, 3000) /\ Lt(humidity, 5000) THEN "High"
         ELSE IF Gt(temp, 2500) THEN "Moderate"
         ELSE "Low"

\* ------------------------------------------------------------------------
\* The handler of app.all("/api/weather")
\* ------------------------------------------------------------------------
Unknown == <<"U", "n", "k", "n", "o", "w", "n">>

\* the default applied to an absent property only (?? in place of ||)
WindDirectionIfAbsent(raw) == IF raw.present THEN raw.text ELSE Unknown

\* input.windDirection || "Unknown": undefined and "" are falsy
WindDirectionOrDefault(raw) ==
  IF raw.present /\ raw.text # <<>> THEN raw.text ELSE Unknown

\* the errors list; server.js declares it and pushes nothing
Validate(f, temperature, humidity, windSpeed) ==
  IF f = "server.js"
    THEN <<>>
    ELSE (IF isNaN(temperature) THEN <<"Invalid or missing temperature">> ELSE <<>>)
         \o (IF isNaN(humidity) THEN <<"Invalid or missing humidity">> ELSE <<>>)
         \o (IF isNaN(windSpeed) THEN <<"Invalid or missing windSpeed">> ELSE <<>>)

\* the condition under which the handler computes the windChill field
WindChillExposed(f, temperature) ==
  IF f = "part_000" THEN Le(temperature, 1000) ELSE Lt(temperature, 2000)

Location(f) ==
  CASE f = "server.js" ->
         "Plaksha University, Mohali , Punjab - Auth code : why are you here sir? "
    [] f = "part_000" ->
         "Plaksha University, Mohali, Punjab - Auth code: 0xPLAKSHA-SAATYAK5462025"
    [] f = "part_001" ->
         "Plaksha University, Mohali , Punjab - Auth code : 0xPLAKSHA-SAATYAK5462025 "

\* res.json: JSON has no NaN and no infinities, JSON.stringify writes null
JsonNumber(x) == IF x.k \in {"NaN", "-Infinity"} THEN Null ELSE x

\* the input object the handler reads: the query of a GET, the body otherwise
InputOf(r) == IF r.method = "GET" THEN r.query ELSE r.body

\* the response of version f to request r at time now
Weather(f, r, now) ==
  LET input         == InputOf(r)
      temperature   == parseFloat(input.temperature)
      humidity      == parseFloat(input.humidity)
      windSpeed     == parseFloat(input.windSpeed)
      windDirection == WindDirectionOrDefault(input.windDirection)
      errors        == Validate(f, temperature, humidity, windSpeed)
      discomfortIndex == thomsDiscomfortIndex(temperature, humidity)
      heatIndex     == calculateHeatIndex(f, temperature, humidity)
      windChill     == IF WindChillExposed(f, temperature)
                         THEN calculateWindChill(f, temperature, windSpeed)
                         ELSE Null
      dewPoint      == calculateDewPoint(f, temperature, humidity)
      rainPrediction == getRainPrediction(f, temperature, humidity, windSpeed)
      windWarning   == getWindWarning(f, windSpeed)
      comfortLevel  == getComfortLevel(f, discomfortIndex)
      clothingSuggestion == getClothingSuggestion(f, comfortLevel)
      feelsLike     == calculateFeelsLike(f, temperature, humidity, windSpeed)
      uvRisk        == getUvRisk(f, temperature, humidity)
  IN  IF Len(errors) > 0
        THEN [status |-> 400,
              body |-> [error |-> "Validation error", details |-> errors]]
        ELSE [status |-> 200,
              body |-> [input |-> [temperature |-> JsonNumber(temperature),
                                   humidity |-> JsonNumber(humidity),
                                   windSpeed |-> JsonNumber(windSpeed),
                                   windDirection |-> windDirection],
                        indices |-> [discomfortIndex |-> JsonNumber(discomfortIndex),
                                     heatIndex |-> JsonNumber(heatIndex),
                                     windChill |-> JsonNumber(windChill),
                                     dewPoint |-> JsonNumber(dewPoint),
                                     feelsLike |-> JsonNumber(feelsLike),
                                     uvRisk |-> uvRisk],
                        weatherForecast |-> [rainPrediction |-> rainPrediction,
                                             windWarning |-> windWarning,
                                             comfortLevel |-> comfortLevel,
                                             clothingSuggestion |-> clothingSuggestion],
                        meta |-> [serverTime |-> now, location |-> Location(f)]]]

\* ------------------------------------------------------------------------
\* Requests
\* ------------------------------------------------------------------------
\* the number of clock ticks a behaviour covers
MaxClock == 2

RawTemperatures ==
  { Missing, Str(<<"a", "b", "c">>),
    Str(<<"-", "5">>), Str(<<"1", "0">>), Str(<<"1", "5">>), Str(<<"2", "0">>),
    Str(<<"2", "6", ".", "8">>), Str(<<"2", "7">>), Str(<<"3", "1">>),
    Str(<<"3", "2">>), Str(<<"3", "6">>) }

RawHumidities ==
  { Missing, Str(<<>>),
    Str(<<"-", "5">>), Str(<<"0">>), Str(<<"2", "0">>), Str(<<"4", "5">>),
    Str(<<"6", "0">>), Str(<<"7", "8">>), Str(<<"9", "0">>) }

RawWindSpeeds ==
  { Missing, Str(<<"f", "a", "s", "t">>),
    Str(<<"-", "3">>), Str(<<"0">>), Str(<<"2">>), Str(<<"4", ".", "8">>),
    Str(<<"5">>), Str(<<"1", "0">>), Str(<<"2", "0">>), Str(<<"3", "0">>) }

RawWindDirections == { Missing, Str(<<>>), Str(<<"N", "W">>) }

\* an object without the four properties: the query of a POST, the body of a GET
EmptyInput ==
  [temperature |-> Missing, humidity |-> Missing, windSpeed |-> Missing,
   windDirection |-> Missing]

NoRequest == [method |-> "none", query |-> EmptyInput, body |-> EmptyInput]

NoResponse == [status |-> 0, body |-> [none |-> TRUE]]

Request(method, input) ==
  [method |-> method,
   query |-> IF method = "GET" THEN input ELSE EmptyInput,
   body |-> IF method = "GET" THEN EmptyInput ELSE input]

Init ==
  /\ req = NoRequest
  /\ res = NoResponse
  /\ servedBy = "none"
  /\ clock = 0

\* a client sends a request
Send ==
  /\ req.method = "none"
  /\ \E method \in {"GET", "POST"}, t \in RawTemperatures, h \in RawHumidities,
        w \in RawWindSpeeds, d \in RawWindDirections :
       req' = Request(method, [temperature |-> t, humidity |-> h,
                               windSpeed |-> w, windDirection |-> d])
  /\ UNCHANGED <<res, servedBy, clock>>

\* a request is waiting for its response
Pending == req.method # "none" /\ res.status = 0

\* the handler of src/server.js answers the request
HandleServerJs ==
  /\ Pending
  /\ res' = Weather("server.js", req, clock)
  /\ servedBy' = "server.js"
  /\ UNCHANGED <<req, clock>>

\* the handler of src/unnamed/part_000 answers the request
HandlePart000 ==
  /\ Pending
  /\ res' = Weather("part_000", req, clock)
  /\ servedBy' = "part_000"
  /\ UNCHANGED <<req, clock>>

\* the handler of src/unnamed/part_001 answers the request
HandlePart001 ==
  /\ Pending
  /\ res' = Weather("part_001", req, clock)
  /\ servedBy' = "part_001"
  /\ UNCHANGED <<req, clock>>

\* the client has read the response
Receive ==
  /\ res.status # 0
  /\ req' = NoRequest
  /\ res' = NoResponse
  /\ servedBy' = "none"
  /\ UNCHANGED clock

\* time passes (new Date())
Tick ==
  /\ clock < MaxClock
  /\ clock' = clock + 1
  /\ UNCHANGED <<req, res, servedBy>>

Next ==
  \/ Send
  \/ HandleServerJs
  \/ HandlePart000
  \/ HandlePart001
  \/ Receive
  \/ Tick

Spec == Init /\ [][Next]_vars

\* ------------------------------------------------------------------------
\* Properties
\* ------------------------------------------------------------------------
\* the request as the handler parses it
Temperature == parseFloat(InputOf(req).temperature)

Humidity == parseFloat(InputOf(req).humidity)

WindSpeed == parseFloat(InputOf(req).windSpeed)

AllValid == ~isNaN(Temperature) /\ ~isNaN(Humidity) /\ ~isNaN(WindSpeed)

Answered == res.status # 0

Succeeded == res.status = 200

\* the messages of the fields that did not parse
FailingMessages ==
  (IF isNaN(Temperature) THEN {"Invalid or missing temperature"} ELSE {})
  \cup (IF isNaN(Humidity) THEN {"Invalid or missing humidity"} ELSE {})
  \cup (IF isNaN(WindSpeed) THEN {"Invalid or missing windSpeed"} ELSE {})

\* C1: a request with a missing or non-numeric temperature, humidity or
\* windSpeed is answered 400 "Validation error" with exactly one message per
\* failing field and none for a field that parsed.
C1_ValidationListsFailingFields ==
  (Answered /\ ~AllValid) =>
    /\ res.status = 400
    /\ res.body.error = "Validation error"
    /\ Len(res.body.details) = Cardinality(FailingMessages)
    /\ {res.body.details[i] : i \in DOMAIN res.body.details} = FailingMessages

\* C2: a request ends in a complete result when all three fields validate and
\* in the error list alone when one does not; no successful response is
\* computed from an invalid (NaN) input.
C2_CompleteResultOrErrorsOnly ==
  Answered =>
    IF AllValid
      THEN /\ res.status = 200
           /\ DOMAIN res.body = {"input", "indices", "weatherForecast", "meta"}
      ELSE /\ res.status = 400
           /\ DOMAIN res.body = {"error", "details"}

\* C3: in a successful response windChill is non-null exactly when
\* temperature < 20, and then it is calculateWindChill(temperature, windSpeed),
\* the temperature itself when windSpeed < 4.8.
C3_WindChillFieldBelow20 ==
  Succeeded =>
    /\ (res.body.indices.windChill # Null) <=> Lt(Temperature, 2000)
    /\ Lt(Temperature, 2000) =>
         res.body.indices.windChill =
           JsonNumber(calculateWindChill("server.js", Temperature, WindSpeed))
    /\ (Lt(Temperature, 2000) /\ Lt(WindSpeed, 480)) =>
         res.body.indices.windChill = Temperature

\* C4: for valid inputs feelsLike is the heat index when temperature >= 27,
\* the wind chill (the temperature when windSpeed < 4.8) when temperature < 20
\* and the temperature when 20 <= temperature < 27.
C4_FeelsLikeByRegime ==
  (Succeeded /\ AllValid) =>
    res.body.indices.feelsLike =
      IF Ge(Temperature, 2700) THEN res.body.indices.heatIndex
      ELSE IF Lt(Temperature, 2000)
        THEN calculateWindChill("server.js", Temperature, WindSpeed)
        ELSE Temperature

\* C5: for every numeric windSpeed the wind warning is "Strong Winds" above
\* 25, "Breezy" above 15 up to 25 and "None" for every windSpeed <= 15, zero
\* and negative wind speeds included.
C5_WindWarningLabels ==
  (Succeeded /\ ~isNaN(WindSpeed)) =>
    res.body.weatherForecast.windWarning =
      IF Gt(WindSpeed, 2500) THEN "Strong Winds"
      ELSE IF Gt(WindSpeed, 1500) THEN "Breezy"
      ELSE "None"

\* C6 as stated: input.windDirection is "Unknown" when the request carries no
\* windDirection and the provided value for any provided string, the empty
\* string included.
C6_WindDirectionEchoedAlways ==
  Succeeded =>
    res.body.input.windDirection =
      IF InputOf(req).windDirection.present
        THEN InputOf(req).windDirection.text
        ELSE Unknown

\* C6 as amended: input.windDirection is "Unknown" when the request carries
\* no windDirection or an empty one, and the provided value for every
\* non-empty string.
C6_WindDirectionEchoedUnlessEmpty ==
  Succeeded =>
    LET raw == InputOf(req).windDirection
    IN  /\ (~raw.present \/ raw.text = <<>>) =>
             res.body.input.windDirection = Unknown
        /\ (raw.present /\ raw.text # <<>>) =>
             res.body.input.windDirection = raw.text

\* a successful response to a request whose windDirection is the empty string
C6_EmptyWindDirectionAnswered ==
  /\ Succeeded
  /\ InputOf(req).windDirection = Str(<<>>)
  /\ res.body.input.windDirection = Unknown

\* C7: for valid inputs the rain prediction is "High" iff humidity > 85,
\* temperature < 30 and windSpeed < 6, otherwise "Medium" iff humidity > 75
\* and temperature < 32, otherwise "Low".
C7_RainPredictionRules ==
  (Succeeded /\ AllValid) =>
    res.body.weatherForecast.rainPrediction =
      IF Gt(Humidity, 8500) /\ Lt(Temperature, 3000) /\ Lt(WindSpeed, 600)
        THEN "High"
        ELSE IF Gt(Humidity, 7500) /\ Lt(Temperature, 3200) THEN "Medium"
        ELSE "Low"

\* C8: for valid inputs the heat index is the temperature whenever
\* temperature < 27 or humidity < 40; when temperature >= 27 and humidity < 40
\* heatIndex = feelsLike = temperature and windChill is null.
C8_HeatIndexOutsideHotHumid ==
  (Succeeded /\ AllValid) =>
    /\ (Lt(Temperature, 2700) \/ Lt(Humidity, 4000)) =>
         res.body.indices.heatIndex = Temperature
    /\ (Ge(Temperature, 2700) /\ Lt(Humidity, 4000)) =>
         /\ res.body.indices.feelsLike = Temperature
         /\ res.body.indices.windChill = Null

\* C9: a request that passes validation with humidity <= 0 is rejected or
\* answered with a finite dewPoint; indices.dewPoint is never the outcome of
\* NaN or of an infinity.
C9_DewPointDefinedAtZeroHumidity ==
  (Answered /\ AllValid /\ Le(Humidity, 0)) =>
    \/ res.status = 400
    \/ res.body.indices.dewPoint.k = "num"

\* C10: in a successful response windChill is non-null exactly when
\* calculateFeelsLike took its wind-chill branch, and then feelsLike equals
\* windChill; when windChill is null, feelsLike is the heat index
\* (temperature >= 27) or the temperature.
C10_WindChillAgreesWithFeelsLike ==
  Succeeded =>
    LET wc == res.body.indices.windChill
        fl == res.body.indices.feelsLike
    IN  /\ (wc # Null) <=> (FeelsLikeBranch(servedBy, Temperature) = "windChill")
        /\ (wc # Null) => fl = wc
        /\ (wc = Null) =>
             \/ Ge(Temperature, 2700) /\ fl = res.body.indices.heatIndex
             \/ fl = res.body.input.temperature

====
